---- MODULE Spec2Model ----
(***************************************************************************)
(* Attitude filter of omega_ff (angular-rate feedback AHRS with dynamic   *)
(* acceleration detection, error function E2).                             *)
(*                                                                         *)
(* f64 values are carried as fixed-point integers: the integer n stands    *)
(* for the real n / Scale.  A Vector3 is a tuple <<x, y, z>>; a Quaternion *)
(* is <<w, <<x, y, z>>>>, so that q[1] is Rust's q.0 and q[2] is q.1.      *)
(***************************************************************************)
EXTENDS Integers, Sequences, FiniteSets, TLC

VARIABLES
    self,              \* the AttitudeFilter struct
    call,              \* the last call made on it: its inputs and its locals
    disturbanceState,  \* the tri-state of spec section 4.2, run side by side
    e_log,             \* the error e of every correct call so far, in order
    steps              \* number of calls made so far

vars == <<self, call, disturbanceState, e_log, steps>>

\* ------------------------------------------------------------ bounds
MaxSteps == 4

\* ------------------------------------------------------------ f64
Scale == 1000

HALF == 500

fmul(a, b) == (a * b + Scale \div 2) \div Scale

fdiv(a, b) ==
    IF b > 0 THEN (a * Scale + b \div 2) \div b
    ELSE ((0 - a) * Scale + (0 - b) \div 2) \div (0 - b)

RECURSIVE sqrt_search(_, _, _)
sqrt_search(n, lo, hi) ==
    IF lo >= hi THEN lo
    ELSE LET mid == (lo + hi + 1) \div 2
         IN  IF mid * mid <= n THEN sqrt_search(n, mid, hi)
             ELSE sqrt_search(n, lo, mid - 1)

\* square root of a sum of squares of fixed-point values: the result is
\* again a fixed-point value
fsqrt(n) == sqrt_search(n, 0, 46340)

\* ------------------------------------------------------------ quat
add_vec(a, b) == <<a[1] + b[1], a[2] + b[2], a[3] + b[3]>>

sub_vec(a, b) == <<a[1] - b[1], a[2] - b[2], a[3] - b[3]>>

negate_vec(a) == <<0 - a[1], 0 - a[2], 0 - a[3]>>

scale_vec(s, a) == <<fmul(s, a[1]), fmul(s, a[2]), fmul(s, a[3])>>

scale_add_vec(s, a, b) == add_vec(scale_vec(s, a), b)

hadamard_vec(a, b) == <<fmul(a[1], b[1]), fmul(a[2], b[2]), fmul(a[3], b[3])>>

dot_vec(a, b) == (a[1] * b[1] + a[2] * b[2] + a[3] * b[3] + Scale \div 2) \div Scale

cross_vec(a, b) ==
    << (a[2] * b[3] - a[3] * b[2] + Scale \div 2) \div Scale,
       (a[3] * b[1] - a[1] * b[3] + Scale \div 2) \div Scale,
       (a[1] * b[2] - a[2] * b[1] + Scale \div 2) \div Scale >>

norm_vec(a) == fsqrt(a[1] * a[1] + a[2] * a[2] + a[3] * a[3])

dot(a, b) == (a[1] * b[1] + a[2][1] * b[2][1] + a[2][2] * b[2][2]
              + a[2][3] * b[2][3] + Scale \div 2) \div Scale

norm(a) == fsqrt(a[1] * a[1] + a[2][1] * a[2][1] + a[2][2] * a[2][2]
                 + a[2][3] * a[2][3])

scale_add(s, a, b) == <<fmul(s, a[1]) + b[1], scale_add_vec(s, a[2], b[2])>>

conj(a) == <<a[1], negate_vec(a[2])>>

\* Hamilton product a (x) b
mul(a, b) ==
    << fmul(a[1], b[1]) - dot_vec(a[2], b[2]),
       add_vec(add_vec(scale_vec(a[1], b[2]), scale_vec(b[1], a[2])),
               cross_vec(a[2], b[2])) >>

\* q / |q|; a zero quaternion has no direction and is returned as it is
normalize(a) ==
    LET n == norm(a)
    IN  IF n = 0 THEN a
        ELSE <<fdiv(a[1], n), <<fdiv(a[2][1], n), fdiv(a[2][2], n), fdiv(a[2][3], n)>>>>

normalize_vec(a) ==
    LET n == norm_vec(a)
    IN  IF n = 0 THEN a ELSE <<fdiv(a[1], n), fdiv(a[2], n), fdiv(a[3], n)>>

\* reference frame -> body frame: q* (x) v (x) q
frame_rotation(q, v) == mul(conj(q), mul(<<0, v>>, q))[2]

\* body frame -> reference frame: q (x) v (x) q*
vector_rotation(q, v) == mul(q, mul(<<0, v>>, conj(q)))[2]

\* the shortest-arc unit quaternion that turns a onto b
rotate_a_to_b(a, b) ==
    LET ua == normalize_vec(a)
        ub == normalize_vec(b)
        w  == Scale + dot_vec(ua, ub)
        v  == cross_vec(ua, ub)
    IN  IF norm_vec(a) = 0 \/ norm_vec(b) = 0 THEN <<Scale, <<0, 0, 0>>>>
        ELSE IF norm(<<w, v>>) = 0
             THEN \* antiparallel: any axis orthogonal to a
                  <<0, normalize_vec(IF ua[1] # 0 \/ ua[2] # 0
                                     THEN <<0 - ua[2], ua[1], 0>>
                                     ELSE <<Scale, 0, 0>>)>>
             ELSE normalize(<<w, v>>)

\* ------------------------------------------------------------ constants
STANDARD_GRAVITY == 9807

ACC_R == <<0, 0, STANDARD_GRAVITY>>

MAG_R == <<0, Scale, 0>>

HYSTERESIS == 200

DT == 20

\* ------------------------------------------------------------ inputs
\* constructor arguments <<alpha, beta, thr_weak, thr_strong>> the callers
\* use: those of main, and a second pair of thresholds
ValidParams == { <<1000, 200, 40, 80>>, <<2000, 100, 30, 60>> }

\* arguments the signature of new accepts as well
\* (alpha = 0 is left out: 2.0 / 0.0 is the f64 infinity, which the
\* fixed-point values do not have)
InvalidParams == { <<0 - 1000, 200, 40, 80>>, <<1000, 200, 80, 40>>,
                   <<1000, 200, 40, 40>> }

\* angular rates [rad/s]: the rate main feeds, and a fast roll
GyrIn == { <<100, 100, 100>>, <<0 - 1500, 0, 500>> }

\* accelerations [m/s^2]: gravity plus a disturbance a_dr along x whose
\* size is 0, 0.030, 0.035, 0.05, 0.07 and 0.15 g
AccIn == { <<0, 0, 9807>>, <<294, 0, 9807>>, <<343, 0, 9807>>,
           <<490, 0, 9807>>, <<686, 0, 9807>>, <<1471, 0, 9807>> }

\* magnetic field directions: a heading 30 degrees off the reference
MagIn == { <<500, 866, 0>> }

\* ------------------------------------------------------------ AttitudeFilter
new(alpha, beta, thr_weak, thr_strong) ==
    [ q               |-> <<Scale, <<0, 0, 0>>>>,
      gyr_correct     |-> <<0, 0, 0>>,
      coef_gyr_c      |-> fdiv(2 * Scale, alpha),
      coef_integ      |-> beta,
      gyr_integ       |-> <<0, 0, 0>>,
      thr_weak        |-> thr_weak,
      thr_strong      |-> thr_strong,
      flag_acc_weak   |-> FALSE,
      flag_acc_strong |-> FALSE ]

\* omega of predict
omega_of(this, gyr) == add_vec(gyr, this.gyr_correct)

predict(this, gyr) ==
    LET omega == omega_of(this, gyr)
        tmp0  == scale_vec(this.q[1], omega)
        d     == dot_vec(this.q[2], omega)
        cross == cross_vec(this.q[2], omega)
        tmp1  == <<0 - d, add_vec(tmp0, cross)>>
        q1    == scale_add(fmul(HALF, DT), tmp1, this.q)
    IN  [this EXCEPT !.q = normalize(q1)]

\* acc and mag give the attitude q_gm against the reference frame
get_q_gm(acc, mag) ==
    LET q_g     == rotate_a_to_b(acc, ACC_R)
        mag_b2r == hadamard_vec(vector_rotation(q_g, mag), <<Scale, Scale, 0>>)
        q_e     == rotate_a_to_b(mag_b2r, MAG_R)
    IN  mul(q_e, q_g)

\* the error function E2
error_e2(this, acc) ==
    fdiv(norm_vec(sub_vec(acc, frame_rotation(this.q, ACC_R))), STANDARD_GRAVITY)


\* disturbance with the strong branch going on with the measured acc
disturbance_no_replace(this, e, acc, acc_q) ==
    LET coef == this.coef_gyr_c
    IN  IF e > this.thr_strong
        THEN [ flag_acc_weak |-> this.flag_acc_weak, flag_acc_strong |-> TRUE,
               acc |-> acc, replaced |-> FALSE, coef |-> coef ]
        ELSE IF e > this.thr_weak
        THEN IF this.flag_acc_strong
                /\ e > this.thr_strong - fmul(this.thr_strong, HYSTERESIS)
             THEN [ flag_acc_weak |-> this.flag_acc_weak,
                    flag_acc_strong |-> this.flag_acc_strong,
                    acc |-> acc_q, replaced |-> TRUE, coef |-> coef ]
             ELSE [ flag_acc_weak |-> TRUE, flag_acc_strong |-> FALSE,
                    acc |-> acc, replaced |-> FALSE, coef |-> fmul(coef, HALF) ]
        ELSE IF this.flag_acc_weak
                /\ e > this.thr_weak - fmul(this.thr_weak, HYSTERESIS)
             THEN [ flag_acc_weak |-> this.flag_acc_weak,
                    flag_acc_strong |-> this.flag_acc_strong,
                    acc |-> acc, replaced |-> FALSE, coef |-> fmul(coef, HALF) ]
             ELSE [ flag_acc_weak |-> FALSE, flag_acc_strong |-> FALSE,
                    acc |-> acc, replaced |-> FALSE, coef |-> coef ]

\* disturbance without the hysteresis strong -> weak
disturbance_no_rearm(this, e, acc, acc_q) ==
    LET coef == this.coef_gyr_c
    IN  IF e > this.thr_strong
        THEN [ flag_acc_weak |-> this.flag_acc_weak, flag_acc_strong |-> TRUE,
               acc |-> acc_q, replaced |-> TRUE, coef |-> coef ]
        ELSE IF e > this.thr_weak
        THEN [ flag_acc_weak |-> TRUE, flag_acc_strong |-> FALSE,
               acc |-> acc, replaced |-> FALSE, coef |-> fmul(coef, HALF) ]
        ELSE IF this.flag_acc_weak
                /\ e > this.thr_weak - fmul(this.thr_weak, HYSTERESIS)
             THEN [ flag_acc_weak |-> this.flag_acc_weak,
                    flag_acc_strong |-> this.flag_acc_strong,
                    acc |-> acc, replaced |-> FALSE, coef |-> fmul(coef, HALF) ]
             ELSE [ flag_acc_weak |-> FALSE, flag_acc_strong |-> FALSE,
                    acc |-> acc, replaced |-> FALSE, coef |-> coef ]

\* disturbance whose last branch leaves flag_acc_strong as it is
disturbance_latched(this, e, acc, acc_q) ==
    LET coef == this.coef_gyr_c
    IN  IF e > this.thr_strong
        THEN [ flag_acc_weak |-> this.flag_acc_weak, flag_acc_strong |-> TRUE,
               acc |-> acc_q, replaced |-> TRUE, coef |-> coef ]
        ELSE IF e > this.thr_weak
        THEN IF this.flag_acc_strong
                /\ e > this.thr_strong - fmul(this.thr_strong, HYSTERESIS)
             THEN [ flag_acc_weak |-> this.flag_acc_weak,
                    flag_acc_strong |-> this.flag_acc_strong,
                    acc |-> acc_q, replaced |-> TRUE, coef |-> coef ]
             ELSE [ flag_acc_weak |-> TRUE, flag_acc_strong |-> FALSE,
                    acc |-> acc, replaced |-> FALSE, coef |-> fmul(coef, HALF) ]
        ELSE IF this.flag_acc_weak
                /\ e > this.thr_weak - fmul(this.thr_weak, HYSTERESIS)
             THEN [ flag_acc_weak |-> this.flag_acc_weak,
                    flag_acc_strong |-> this.flag_acc_strong,
                    acc |-> acc, replaced |-> FALSE, coef |-> fmul(coef, HALF) ]
             ELSE [ flag_acc_weak |-> FALSE,
                    flag_acc_strong |-> this.flag_acc_strong,
                    acc |-> acc, replaced |-> FALSE, coef |-> coef ]

\* Disturbance detection of correct: the flags it leaves, the acceleration
\* and the gain it goes on with.  replaced records that acc = acc_q ran.
disturbance(this, e, acc, acc_q) ==
    LET coef == this.coef_gyr_c
    IN  IF e > this.thr_strong
        THEN [ flag_acc_weak |-> this.flag_acc_weak, flag_acc_strong |-> TRUE,
               acc |-> acc_q, replaced |-> TRUE, coef |-> coef ]
        ELSE IF e > this.thr_weak
        THEN IF this.flag_acc_strong
                /\ e > this.thr_strong - fmul(this.thr_strong, HYSTERESIS)
             THEN [ flag_acc_weak |-> this.flag_acc_weak,
                    flag_acc_strong |-> this.flag_acc_strong,
                    acc |-> acc_q, replaced |-> TRUE, coef |-> coef ]
             ELSE [ flag_acc_weak |-> TRUE, flag_acc_strong |-> FALSE,
                    acc |-> acc, replaced |-> FALSE, coef |-> fmul(coef, HALF) ]
        ELSE IF this.flag_acc_weak
                /\ e > this.thr_weak - fmul(this.thr_weak, HYSTERESIS)
             THEN [ flag_acc_weak |-> this.flag_acc_weak,
                    flag_acc_strong |-> this.flag_acc_strong,
                    acc |-> acc, replaced |-> FALSE, coef |-> fmul(coef, HALF) ]
             ELSE [ flag_acc_weak |-> FALSE, flag_acc_strong |-> FALSE,
                    acc |-> acc, replaced |-> FALSE, coef |-> coef ]


\* rate added onto the gyr_correct of the call before
rate_accumulates(this, coef, q_gm) ==
    LET term1 == scale_vec(this.q[1], q_gm[2])
        term2 == scale_vec(q_gm[1], this.q[2])
        term3 == cross_vec(q_gm[2], this.q[2])
        g     == scale_vec(coef, add_vec(sub_vec(term1, term2), term3))
    IN  add_vec(this.gyr_correct,
                IF dot(this.q, q_gm) < 0 THEN negate_vec(g) ELSE g)

\* the angular rate that takes q to q_gm, its sign aligned with q
rate(this, coef, q_gm) ==
    LET term1 == scale_vec(this.q[1], q_gm[2])
        term2 == scale_vec(q_gm[1], this.q[2])
        term3 == cross_vec(q_gm[2], this.q[2])
        g     == scale_vec(coef, add_vec(sub_vec(term1, term2), term3))
    IN  IF dot(this.q, q_gm) < 0 THEN negate_vec(g) ELSE g


\* feedback in the other order: the rate takes the integral term first, the
\* integral term then takes the rate with the integral term in it
feedback_fold_first(this, p) ==
    LET folded == scale_add_vec(this.coef_integ, this.gyr_integ, p)
    IN  [this EXCEPT !.gyr_integ   = scale_add_vec(DT, folded, this.gyr_integ),
                     !.gyr_correct = folded]

\* the integral term takes the rate, then the rate takes the integral term
feedback(this, p) ==
    LET integ == scale_add_vec(DT, p, this.gyr_integ)
    IN  [this EXCEPT !.gyr_integ   = integ,
                     !.gyr_correct = scale_add_vec(this.coef_integ, integ, p)]

\* correct that also sets the estimate q to the reference attitude q_gm
correct_writes_q(this, acc, mag) ==
    LET acc_q == frame_rotation(this.q, ACC_R)
        e     == error_e2(this, acc)
        d     == disturbance(this, e, acc, acc_q)
        flagged == [this EXCEPT !.flag_acc_weak   = d.flag_acc_weak,
                                !.flag_acc_strong = d.flag_acc_strong]
        q_gm  == get_q_gm(d.acc, mag)
        p     == rate(flagged, d.coef, q_gm)
    IN  [ filter |-> [feedback(flagged, p) EXCEPT !.q = q_gm],
          acc_q |-> acc_q, e |-> e, acc |-> d.acc, replaced |-> d.replaced,
          coef |-> d.coef, q_gm |-> q_gm, p |-> p ]

\* correct: the filter it leaves, and its locals
correct(this, acc, mag) ==
    LET acc_q == frame_rotation(this.q, ACC_R)
        e     == error_e2(this, acc)
        d     == disturbance(this, e, acc, acc_q)
        flagged == [this EXCEPT !.flag_acc_weak   = d.flag_acc_weak,
                                !.flag_acc_strong = d.flag_acc_strong]
        q_gm  == get_q_gm(d.acc, mag)
        p     == rate(flagged, d.coef, q_gm)
    IN  [ filter |-> feedback(flagged, p),
          acc_q |-> acc_q, e |-> e, acc |-> d.acc, replaced |-> d.replaced,
          coef |-> d.coef, q_gm |-> q_gm, p |-> p ]

\* ------------------------------------------------------------ section 4.2
\* the tri-state table of the specification
transition(state, e, thr_weak, thr_strong) ==
    IF e > thr_strong
    THEN [state |-> "STRONG", replaced |-> TRUE, halved |-> FALSE]
    ELSE IF e > thr_weak
    THEN IF state = "STRONG" /\ 10 * e > 8 * thr_strong
         THEN [state |-> "STRONG", replaced |-> TRUE, halved |-> FALSE]
         ELSE [state |-> "WEAK", replaced |-> FALSE, halved |-> TRUE]
    ELSE IF state = "WEAK" /\ 10 * e > 8 * thr_weak
         THEN [state |-> "WEAK", replaced |-> FALSE, halved |-> TRUE]
         ELSE [state |-> "NONE", replaced |-> FALSE, halved |-> FALSE]

\* the tri-state a pair of flags stands for
flag_state(this) ==
    IF this.flag_acc_strong THEN "STRONG"
    ELSE IF this.flag_acc_weak THEN "WEAK" ELSE "NONE"

\* ------------------------------------------------------------ behaviour
Construct(params) ==
    /\ \E a \in params :
          /\ self = new(a[1], a[2], a[3], a[4])
          /\ call = [ op |-> "new", alpha |-> a[1], beta |-> a[2],
                      thr_weak |-> a[3], thr_strong |-> a[4] ]
    /\ disturbanceState = "NONE"
    /\ e_log = <<>>
    /\ steps = 0

Init == Construct(ValidParams)

InitNew == Construct(ValidParams \cup InvalidParams)

Predict ==
    /\ steps < MaxSteps
    /\ \E gyr \in GyrIn :
          /\ self' = predict(self, gyr)
          /\ call' = [op |-> "predict", gyr |-> gyr, omega |-> omega_of(self, gyr)]
    /\ steps' = steps + 1
    /\ UNCHANGED <<disturbanceState, e_log>>

Correct ==
    /\ steps < MaxSteps
    /\ \E acc \in AccIn, mag \in MagIn :
          \E r \in {correct(self, acc, mag)} :
          LET t == transition(disturbanceState, r.e, self.thr_weak, self.thr_strong)
          IN  /\ self' = r.filter
              /\ call' = [ op |-> "correct", acc_in |-> acc, mag |-> mag,
                           acc_q |-> r.acc_q, e |-> r.e, acc |-> r.acc,
                           replaced |-> r.replaced, coef |-> r.coef,
                           q_gm |-> r.q_gm, p |-> r.p,
                           spec_replaced |-> t.replaced, spec_halved |-> t.halved ]
              /\ disturbanceState' = t.state
              /\ e_log' = Append(e_log, r.e)
    /\ steps' = steps + 1

Next == Predict \/ Correct

Spec == Init /\ [][Next]_vars

SpecNew == InitNew /\ [][Next]_vars

\* ------------------------------------------------------------ claims
IsCorrect == call.op = "correct"

IsPredict == call.op = "predict"

Zero3 == <<0, 0, 0>>

Identity == <<Scale, Zero3>>

\* e_log[n - back], the error of the correct call `back` calls before the last
ErrBefore(back) == e_log[Len(e_log) - back]

\* e lies in the re-arm band of the strong disturbance
InStrongBand(e) ==
    /\ e > self.thr_weak
    /\ e <= self.thr_strong
    /\ 10 * e > 8 * self.thr_strong

\* e_log ends with a call above thr_strong followed by n calls in the band
RunAfterStrong(n) ==
    /\ Len(e_log) >= n + 1
    /\ ErrBefore(n) > self.thr_strong
    /\ \A k \in 0 .. n - 1 : InStrongBand(ErrBefore(k))

\* C1: after a correct call with e > thr_strong the state is STRONG, the
\* acceleration handed to get_q_gm is the predicted acc_q and the gain is
\* the full coef_gyr_c.
C1_StrongSuppresses ==
    (IsCorrect /\ call.e > self.thr_strong)
        => /\ flag_state(self) = "STRONG"
           /\ call.replaced
           /\ call.acc = call.acc_q
           /\ call.acc_q = frame_rotation(self.q, ACC_R)
           /\ call.coef = self.coef_gyr_c

\* C1 witness: the second of two consecutive correct calls above thr_strong
C1_Witness ==
    /\ IsCorrect
    /\ Len(e_log) >= 2
    /\ ErrBefore(0) > self.thr_strong
    /\ ErrBefore(1) > self.thr_strong
    /\ call.acc_in # call.acc_q

\* C2: a correct call with e > thr_strong followed by correct calls with
\* thr_weak < e <= thr_strong and e > 0.8 thr_strong leaves the state STRONG,
\* the acceleration replaced and the gain full after each of them; a next
\* call with e < 0.8 thr_weak leaves the state NONE.
C2_RearmKeepsStrong ==
    IsCorrect =>
        /\ (\E n \in 1 .. MaxSteps : RunAfterStrong(n))
              => /\ flag_state(self) = "STRONG"
                 /\ call.replaced
                 /\ call.acc = call.acc_q
                 /\ call.coef = self.coef_gyr_c
        /\ ( /\ Len(e_log) >= 3
             /\ 10 * ErrBefore(0) < 8 * self.thr_weak
             /\ \E n \in 1 .. MaxSteps :
                   /\ Len(e_log) >= n + 2
                   /\ ErrBefore(n + 1) > self.thr_strong
                   /\ \A k \in 1 .. n : InStrongBand(ErrBefore(k)) )
              => flag_state(self) = "NONE"

\* C2 witness: e above thr_strong, then in the band, then below 0.8 thr_weak
C2_Witness ==
    /\ IsCorrect
    /\ Len(e_log) >= 3
    /\ ErrBefore(2) > self.thr_strong
    /\ InStrongBand(ErrBefore(1))
    /\ 10 * ErrBefore(0) < 8 * self.thr_weak
    /\ flag_state(self) = "NONE"

\* C3: a correct call with e <= thr_weak halves the gain and stays WEAK
\* exactly when the state before it was WEAK and e > 0.8 thr_weak; otherwise
\* it leaves NONE with the full gain; the acceleration is used as measured.
C3_WeakHysteresis ==
    [][ (call'.op = "correct" /\ call'.e <= self.thr_weak)
            => /\ ~call'.replaced
               /\ call'.acc = call'.acc_in
               /\ IF flag_state(self) = "WEAK" /\ 10 * call'.e > 8 * self.thr_weak
                  THEN /\ call'.coef = fmul(self.coef_gyr_c, HALF)
                       /\ flag_state(self') = "WEAK"
                  ELSE /\ call'.coef = self.coef_gyr_c
                       /\ flag_state(self') = "NONE" ]_vars

\* C4: a filter exists only for alpha > 0, dt > 0 and thr_weak < thr_strong.
C4_RejectsInvalid ==
    call.op = "new"
        => /\ call.alpha > 0
           /\ DT > 0
           /\ call.thr_weak < call.thr_strong

\* C6 as amended: q is written by predict only; correct reads q and leaves
\* it as it is.
C6_CorrectKeepsQ ==
    [][ /\ call'.op = "correct" => self'.q = self.q
        /\ self'.q # self.q => call'.op = "predict" ]_vars

\* C6 witness: correct has run on an estimate that predict had moved, and
\* has a correction to hand over
C6_Witness ==
    /\ IsCorrect
    /\ self.q # Identity
    /\ self.gyr_correct # Zero3

\* C6 as stated: a correct call that finds a correction writes q.
C6_CorrectWritesQ ==
    [][ (call'.op = "correct" /\ self'.gyr_correct # Zero3)
            => self'.q # self.q ]_vars

\* C7: the flags and the tri-state table of section 4.2, run side by side
\* from a fresh filter, agree at every correct call on whether the
\* acceleration is replaced and on whether the gain is halved, the flags
\* stand for the tri-state, and the two flags are never both true.
C7_FlagsRefineTriState ==
    /\ ~(self.flag_acc_weak /\ self.flag_acc_strong)
    /\ flag_state(self) = disturbanceState
    /\ IsCorrect
          => /\ call.replaced = call.spec_replaced
             /\ (call.coef = fmul(self.coef_gyr_c, HALF)) = call.spec_halved

\* C8: gyr_integ is zero at construction, predict leaves it alone, and
\* correct sets gyr_integ' = gyr_integ + DT * P and then
\* gyr_correct' = P + coef_integ * gyr_integ', P the sign-aligned rate.
C8_IntegralThenFold ==
    /\ [](call.op = "new" => self.gyr_integ = Zero3)
    /\ [][ /\ call'.op = "predict" => self'.gyr_integ = self.gyr_integ
           /\ call'.op = "correct"
                 => /\ call'.p = rate(self', call'.coef, call'.q_gm)
                    /\ self'.gyr_integ = scale_add_vec(DT, call'.p, self.gyr_integ)
                    /\ self'.gyr_correct
                          = scale_add_vec(self.coef_integ, self'.gyr_integ, call'.p)
         ]_vars

\* C8 witness: a correct call whose integral term shows in gyr_correct
C8_Witness ==
    /\ IsCorrect
    /\ Len(e_log) >= 2
    /\ call.p # Zero3
    /\ self.gyr_integ # Zero3
    /\ self.gyr_correct # call.p

\* values of gyr_correct two filters may differ in
GyrCorrectAlt == { Zero3, <<Scale, 0 - Scale, HALF>> }

\* C9: a correct call leaves the same filter whatever gyr_correct was before
\* it (the filter it leaves is the one the same call leaves from a state that
\* differs in gyr_correct alone), and predict integrates
\* omega = gyr + gyr_correct without writing gyr_correct (the first predict
\* after construction integrates the raw gyr).
C9_RateRecomputed ==
    [][ /\ call'.op = "correct"
              => \A g \in GyrCorrectAlt :
                    correct([self EXCEPT !.gyr_correct = g],
                            call'.acc_in, call'.mag).filter = self'
        /\ call'.op = "predict"
              => /\ self'.gyr_correct = self.gyr_correct
                 /\ call'.omega = add_vec(call'.gyr, self.gyr_correct)
                 /\ self' = [self EXCEPT !.q = self'.q]
                 /\ call.op = "new" => call'.omega = call'.gyr ]_vars

\* C9 witness: predict has consumed a gyr_correct that a correct call left
C9_Witness ==
    /\ IsPredict
    /\ self.gyr_correct # Zero3
    /\ call.omega # call.gyr
    /\ Len(e_log) >= 2

\* C10: whatever the flags, one correct call with e <= 0.8 thr_weak clears
\* both of them, uses the full gain and the measured acceleration; a call
\* with thr_weak < e <= thr_strong right after it gives WEAK, halved gain,
\* no replacement.
C10_NoLatch ==
    IsCorrect =>
        /\ 10 * call.e <= 8 * self.thr_weak
              => /\ ~self.flag_acc_weak
                 /\ ~self.flag_acc_strong
                 /\ call.coef = self.coef_gyr_c
                 /\ ~call.replaced
                 /\ call.acc = call.acc_in
        /\ ( /\ Len(e_log) >= 2
             /\ 10 * ErrBefore(1) <= 8 * self.thr_weak
             /\ call.e > self.thr_weak
             /\ call.e <= self.thr_strong )
              => /\ flag_state(self) = "WEAK"
                 /\ call.coef = fmul(self.coef_gyr_c, HALF)
                 /\ ~call.replaced
                 /\ call.acc = call.acc_in

\* C10 witness: both flags were set (a weak, then a strong disturbance) and
\* one call with e <= 0.8 thr_weak has cleared them
C10_Witness ==
    /\ IsCorrect
    /\ Len(e_log) >= 3
    /\ ErrBefore(2) > self.thr_weak
    /\ ErrBefore(2) <= self.thr_strong
    /\ ErrBefore(1) > self.thr_strong
    /\ 10 * ErrBefore(0) <= 8 * self.thr_weak
    /\ ~self.flag_acc_weak
    /\ ~self.flag_acc_strong
====
